---- MODULE Spec2Model ----
(***************************************************************************)
(* Model of the multipledispatch resolution engine: the Dispatcher         *)
(* registry (funcs, _cache, _ordering), Dispatcher.add / dispatch /        *)
(* __call__, and the specificity comparator of conflict.py.                *)
(*                                                                         *)
(* A Python type object, a list, a tuple or a non-type value appearing in  *)
(* a signature is a record [kind, name, items]:                            *)
(*   kind = "type"     a plain class, name is its __name__                 *)
(*   kind = "variadic" a class made by Variadic[...], items = variadic_type*)
(*   kind = "list"     a Python list, items are its elements               *)
(*   kind = "tuple"    a Python tuple (union shorthand), items its elements*)
(*   kind = "str"      a Python string instance (a non-type)               *)
(* An exception is the string naming its class, "none" when nothing was    *)
(* raised.                                                                 *)
(***************************************************************************)
EXTENDS Integers, Sequences, FiniteSets, TLC

\* bound: longest argument-type tuple handed to dispatch / __call__
MaxArity == 2

\* bound: longest fixed prefix of a signature handed to supercedes
MaxPrefix == 1

VARIABLES funcs, _cache, _ordering, lastOp, cmp

vars == <<funcs, _cache, _ordering, lastOp, cmp>>

----------------------------------------------------------------------------
(* Values *)

T(n) == [kind |-> "type", name |-> n, items |-> <<>>]

\* Variadic[t] / Variadic[(t1, t2)]: variadic_type is always stored as a tuple
Variadic(ts) == [kind |-> "variadic", name |-> "Variadic", items |-> ts]

PyList(xs) == [kind |-> "list", name |-> "", items |-> xs]

PyTuple(xs) == [kind |-> "tuple", name |-> "", items |-> xs]

PyStr(s) == [kind |-> "str", name |-> s, items |-> <<>>]

\* the attribute self._ordering does not exist (never assigned or deleted)
Unset == "unset"

\* Python's None
None == "None"

\* isinstance(obj, VariadicSignatureType)
isvariadic(obj) == obj.kind = "variadic"

\* the classes used as argument types and signature elements, with their
\* ancestors (each class is its own ancestor): int and float are Numbers
Ancestors(n) ==
  CASE n = "int"    -> {"int", "Number", "object"}
    [] n = "float"  -> {"float", "Number", "object"}
    [] n = "Number" -> {"Number", "object"}
    [] n = "str"    -> {"str", "object"}
    [] OTHER        -> {"object"}

\* issubclass(x, y) for classes x, y.  For a variadic y this is
\* VariadicSignatureType.__subclasscheck__; for a plain y it is type's own
\* check, under which a Variadic[...] class (no bases) descends from object only.
issubclass(x, y) ==
  IF isvariadic(y)
  THEN LET other_type == IF isvariadic(x) THEN x.items ELSE <<x>>
       IN  \/ x = y
           \/ \A i \in 1..Len(other_type) :
                \E j \in 1..Len(y.items) :
                   y.items[j].name \in Ancestors(other_type[i].name)
  ELSE IF isvariadic(x) THEN y.name = "object"
  ELSE y.name \in Ancestors(x.name)

\* all(map(issubclass, a, b)): map stops at the shorter sequence
AllSubclass(a, b) ==
  \A i \in 1..(IF Len(a) < Len(b) THEN Len(a) ELSE Len(b)) : issubclass(a[i], b[i])

----------------------------------------------------------------------------
(* utils.expand_tuples *)

RECURSIVE expand_tuples(_)
expand_tuples(L) ==
  IF L = <<>> THEN << <<>> >>
  ELSE LET rest == expand_tuples(Tail(L))
       IN IF Head(L).kind # "tuple"
          THEN [k \in 1..Len(rest) |-> <<Head(L)>> \o rest[k]]
          ELSE \* [(item,) + t for t in rest for item in L[0]]
               LET n == Len(Head(L).items)
               IN [k \in 1..(Len(rest) * n) |->
                     <<Head(L).items[((k - 1) % n) + 1]>> \o rest[((k - 1) \div n) + 1]]

----------------------------------------------------------------------------
(* Handlers *)

Handlers == {"add_ints", "add_numbers"}

\* Dispatcher.get_func_annotations: add_ints is declared (x: int, y: int),
\* add_numbers carries no annotations (None, modelled as the empty tuple,
\* which is falsy as well)
get_func_annotations(func) ==
  IF func = "add_ints" THEN <<T("int"), T("int")>> ELSE <<>>

----------------------------------------------------------------------------
(* Dispatcher.add *)

\* the validation loop of add: the exception raised by the first offending
\* element, "none" when the loop completes.  A well-formed trailing list
\* reaches the raise statement of line 129, whose message evaluates the
\* undefined name sig, so what propagates is a NameError.
RECURSIVE validate(_, _)
validate(signature, index) ==
  IF index > Len(signature) THEN "none"
  ELSE LET typ == signature[index]
       IN IF typ.kind \notin {"type", "variadic", "list"} THEN "TypeError"
          ELSE IF typ.kind = "list"
               THEN IF index # Len(signature) THEN "TypeError"
                    ELSE IF Len(typ.items) # 1 THEN "TypeError"
                    ELSE "NameError"
               ELSE validate(signature, index + 1)

\* a dict store that keeps the value of a key already present
SetItemIfAbsent(d, k, v) == [x \in DOMAIN d \cup {k} |-> IF x \in DOMAIN d THEN d[x] ELSE v]

\* d[k] = v
SetItem(d, k, v) == [x \in DOMAIN d \cup {k} |-> IF x = k THEN v ELSE d[x]]

\* a store that leaves the cache as it is
StoreKeepCache(st, signature, func) ==
  [funcs |-> SetItem(st.funcs, signature, func),
   cache |-> st.cache,
   ordering |-> Unset,
   raised |-> "none"]

\* the tail of add after validation (lines 134-140): store the handler,
\* clear the cache, delete _ordering
Store(st, signature, func) ==
  [funcs |-> SetItem(st.funcs, signature, func),
   cache |-> <<>>,
   ordering |-> Unset,
   raised |-> "none"]

RECURSIVE add(_, _, _)
RECURSIVE addEach(_, _, _)

\* for typs in expand_tuples(signature): self.add(typs, func)
addEach(st, sigs, func) ==
  IF sigs = <<>> THEN st
  ELSE LET st1 == add(st, Head(sigs), func)
       IN IF st1.raised # "none" THEN st1 ELSE addEach(st1, Tail(sigs), func)

add(st, signature, func) ==
  LET annotations == get_func_annotations(func)
      sig == IF signature = <<>> /\ annotations # <<>> THEN annotations ELSE signature
  IN IF \E i \in 1..Len(sig) : sig[i].kind = "tuple"
     THEN addEach(st, expand_tuples(sig), func)
     ELSE LET err == validate(sig, 1)
          IN IF err # "none" THEN [st EXCEPT !.raised = err]
             ELSE Store(st, sig, func)

----------------------------------------------------------------------------
(* conflict.ordering, Dispatcher.reorder, Dispatcher.ordering *)

\* conflict.ordering raises unconditionally in its first statement
conflict_ordering(signatures) == [raised |-> "Exception", value |-> <<>>]

\* Dispatcher.reorder raises unconditionally before it calls conflict.ordering
reorder(fs) == [raised |-> "Exception", value |-> <<>>]

\* the ordering property: the stored _ordering, else reorder()
ordering(fs, ord) ==
  IF ord # Unset THEN [raised |-> "none", value |-> ord] ELSE reorder(fs)

----------------------------------------------------------------------------
(* Dispatcher.dispatch_iter, Dispatcher.dispatch *)

\* one iteration of the scan loop of dispatch_iter on one signature
ScanStep(types, signature) ==
  IF Len(signature) = Len(types) /\ AllSubclass(types, signature) THEN "yield"
  ELSE IF Len(signature) > 0 /\ isvariadic(signature[Len(signature)]) THEN "raise"
  ELSE "skip"

\* next(self.dispatch_iter(*types)) over an ordering od
RECURSIVE scan(_, _, _)
scan(fs, od, types) ==
  IF od = <<>> THEN [raised |-> "StopIteration", value |-> None]
  ELSE LET s == ScanStep(types, Head(od))
       IN IF s = "yield" THEN [raised |-> "none", value |-> fs[Head(od)]]
          ELSE IF s = "raise" THEN [raised |-> "Exception", value |-> None]
          ELSE scan(fs, Tail(od), types)

dispatch_iter(fs, ord, types) ==
  LET o == ordering(fs, ord)
  IN IF o.raised # "none" THEN [raised |-> o.raised, value |-> None]
     ELSE scan(fs, o.value, types)

\* the general path of dispatch: the first result of dispatch_iter, None
\* when the iterator is exhausted
general_scan(fs, ord, types) ==
  LET r == dispatch_iter(fs, ord, types)
  IN IF r.raised = "StopIteration" THEN [raised |-> "none", value |-> None] ELSE r

dispatch(fs, ord, types) ==
  IF types \in DOMAIN fs THEN [raised |-> "none", value |-> fs[types]]
  ELSE general_scan(fs, ord, types)

----------------------------------------------------------------------------
(* Dispatcher.__call__ *)

\* outcome of one call: the new cache, what was raised, the handler that
\* ran, and whether dispatch was entered (a cold resolution)
call(fs, cache, ord, types) ==
  IF types \in DOMAIN cache
  THEN [cache |-> cache, raised |-> "none", value |-> cache[types], cold |-> FALSE]
  ELSE LET r == dispatch(fs, ord, types)
       IN IF r.raised # "none"
          THEN [cache |-> cache, raised |-> r.raised, value |-> None, cold |-> TRUE]
          ELSE IF r.value = None
          THEN [cache |-> cache, raised |-> "NotImplementedError", value |-> None, cold |-> TRUE]
          ELSE [cache |-> SetItem(cache, types, r.value), raised |-> "none",
                value |-> r.value, cold |-> TRUE]

----------------------------------------------------------------------------
(* Inputs *)

ArgTypes == {T("Number"), T("int"), T("float")}

RECURSIVE TuplesUpTo(_, _)
TuplesUpTo(S, n) ==
  IF n = 0 THEN { <<>> }
  ELSE LET shorter == TuplesUpTo(S, n - 1)
       IN shorter \cup { Append(t, x) : t \in {u \in shorter : Len(u) = n - 1}, x \in S }

\* the argument-type tuples of dispatch / __call__
ArgTuples == TuplesUpTo(ArgTypes, MaxArity)

\* the signatures handed to add
AddSignatures ==
  { <<>>,
    <<T("int"), T("int")>>,
    <<T("Number"), T("Number")>>,
    <<PyTuple(<<T("int"), T("Number")>>), T("int")>>,
    <<PyTuple(<<T("int"), PyStr("bad")>>), T("int")>>,
    <<PyTuple(<<>>)>>,
    <<Variadic(<<T("int")>>)>>,
    <<PyList(<<T("int")>>)>>,
    <<PyList(<<T("int")>>), T("int")>>,
    <<PyList(<<T("int"), T("str")>>)>>,
    <<PyStr("bad")>> }

----------------------------------------------------------------------------
(* The registry as a state machine *)

NoCmp == [a |-> <<>>, b |-> <<>>, done |-> FALSE, result |-> FALSE]

NoOp == [op |-> "init", arg |-> <<>>, func |-> None, raised |-> "none",
         value |-> None, cold |-> FALSE, hit |-> FALSE,
         funcs0 |-> <<>>, cache0 |-> <<>>]

\* Dispatcher.__init__: funcs and _cache empty, _ordering not assigned
Init ==
  /\ funcs = <<>>
  /\ _cache = <<>>
  /\ _ordering = Unset
  /\ lastOp = NoOp
  /\ cmp = NoCmp

Add(signature, func) ==
  LET st == add([funcs |-> funcs, cache |-> _cache, ordering |-> _ordering,
                 raised |-> "none"], signature, func)
  IN /\ funcs' = st.funcs
     /\ _cache' = st.cache
     /\ _ordering' = st.ordering
     /\ lastOp' = [op |-> "add", arg |-> signature, func |-> func,
                   raised |-> st.raised, value |-> None, cold |-> FALSE,
                   hit |-> FALSE, funcs0 |-> funcs, cache0 |-> _cache]
     /\ UNCHANGED cmp

Call(types) ==
  LET r == call(funcs, _cache, _ordering, types)
  IN /\ _cache' = r.cache
     /\ lastOp' = [op |-> "call", arg |-> types, func |-> None,
                   raised |-> r.raised, value |-> r.value, cold |-> r.cold,
                   hit |-> (types \in DOMAIN _cache),
                   funcs0 |-> funcs, cache0 |-> _cache]
     /\ UNCHANGED <<funcs, _ordering, cmp>>

Dispatch(types) ==
  LET r == dispatch(funcs, _ordering, types)
  IN /\ lastOp' = [op |-> "dispatch", arg |-> types, func |-> None,
                   raised |-> r.raised, value |-> r.value, cold |-> FALSE,
                   hit |-> FALSE, funcs0 |-> funcs, cache0 |-> _cache]
     /\ UNCHANGED <<funcs, _cache, _ordering, cmp>>

Next ==
  \/ \E signature \in AddSignatures, func \in Handlers : Add(signature, func)
  \/ \E types \in ArgTuples : Call(types)
  \/ \E types \in ArgTuples : Dispatch(types)

Spec == Init /\ [][Next]_vars

----------------------------------------------------------------------------
(* conflict.supercedes, conflict.edge *)

\* the while loop of supercedes for len(a) > len(b); p1, p2 count from 0.
\* The two asserts of the loop hold for every signature whose only variadic
\* element is its last one.
RECURSIVE supercedes_walk(_, _, _, _)
supercedes_walk(a, b, p1, p2) ==
  IF p1 < Len(a) /\ p2 < Len(b)
  THEN LET cur_a == a[p1 + 1]
           cur_b == b[p2 + 1]
       IN IF ~(isvariadic(cur_a) \/ isvariadic(cur_b))
          THEN IF ~issubclass(cur_a, cur_b) THEN FALSE
               ELSE supercedes_walk(a, b, p1 + 1, p2 + 1)
          ELSE IF isvariadic(cur_a)
          THEN p2 = Len(b) - 1 /\ issubclass(cur_a, cur_b)
          ELSE IF ~issubclass(cur_a, cur_b) THEN FALSE
               ELSE supercedes_walk(a, b, p1 + 1, p2)
  ELSE p2 = Len(b) - 1 /\ p1 = Len(a)

supercedes(a, b) ==
  IF Len(a) < Len(b)
  THEN a = <<>> /\ Len(b) = 1 /\ isvariadic(b[Len(b)])
  ELSE IF Len(a) = Len(b) THEN AllSubclass(a, b)
  ELSE supercedes_walk(a, b, 0, 0)

\* the default tie_breaker, builtin hash: some fixed integer per signature
RECURSIVE hash(_)
hash(sig) ==
  IF sig = <<>> THEN 0
  ELSE LET e == sig[Len(sig)]
           code == CASE e.name = "object" -> 1 [] e.name = "Number" -> 2
                     [] e.name = "int" -> 3 [] e.name = "float" -> 4
                     [] e.name = "str" -> 5 [] OTHER -> 6 + Len(e.items)
       IN (31 * hash(SubSeq(sig, 1, Len(sig) - 1)) + code) % 1024

edge(a, b) ==
  supercedes(a, b) /\ (~supercedes(b, a) \/ hash(a) > hash(b))

----------------------------------------------------------------------------
(* The comparator as a state machine: a pair of signatures is drawn, then  *)
(* supercedes is applied to it                                             *)

PlainTypes == {T("object"), T("Number"), T("int"), T("str")}

VariadicTypes ==
  {Variadic(<<T("int")>>), Variadic(<<T("object")>>), Variadic(<<T("int"), T("str")>>)}

\* signatures as add stores them: plain types, optionally one trailing variadic
Signatures ==
  TuplesUpTo(PlainTypes, MaxPrefix + 1)
    \cup { Append(p, v) : p \in TuplesUpTo(PlainTypes, MaxPrefix), v \in VariadicTypes }

CmpInit ==
  /\ funcs = <<>>
  /\ _cache = <<>>
  /\ _ordering = Unset
  /\ lastOp = NoOp
  /\ cmp \in {[a |-> x, b |-> y, done |-> FALSE, result |-> FALSE] :
                x \in Signatures, y \in Signatures}

Supercedes ==
  /\ ~cmp.done
  /\ cmp' = [cmp EXCEPT !.done = TRUE, !.result = supercedes(cmp.a, cmp.b)]
  /\ UNCHANGED <<funcs, _cache, _ordering, lastOp>>

CmpNext == Supercedes

SpecCmp == CmpInit /\ [][CmpNext]_vars

----------------------------------------------------------------------------
(* Properties *)

\* the concrete signatures one add call sets out to store: the annotations
\* replace an empty signature, union shorthand expands to its cross product
Registered(signature, func) ==
  LET sig == IF signature = <<>> /\ get_func_annotations(func) # <<>>
             THEN get_func_annotations(func) ELSE signature
      ex == expand_tuples(sig)
  IN {ex[k] : k \in 1..Len(ex)}

HasVariadic(sig) == \E i \in 1..Len(sig) : isvariadic(sig[i])

\* a non-variadic signature accepts the argument types
FixedAccepts(types, sig) == Len(sig) = Len(types) /\ AllSubclass(types, sig)

\* variadic_signature_matches_iter under all(): sig walks full_signature
\* (pos counts from 1) and stays on the variadic element once it is reached;
\* when the types run out, signature elements left over mean no match
RECURSIVE variadic_signature_matches_iter(_, _, _, _)
variadic_signature_matches_iter(types, full_signature, i, pos) ==
  IF i > Len(types) THEN pos = Len(full_signature)
  ELSE /\ issubclass(types[i], full_signature[pos])
       /\ variadic_signature_matches_iter(types, full_signature, i + 1,
            IF isvariadic(full_signature[pos]) THEN pos ELSE pos + 1)

variadic_signature_matches(types, full_signature) ==
  variadic_signature_matches_iter(types, full_signature, 1, 1)

\* the match rule the scan of dispatch_iter is written for (lines 184-191,
\* the raise of line 188 aside)
Accepts(types, sig) ==
  \/ FixedAccepts(types, sig)
  \/ /\ sig # <<>>
     /\ isvariadic(sig[Len(sig)])
     /\ variadic_signature_matches(types, sig)

\* C1: with only non-variadic signatures registered, dispatch(t) returns the
\* handler of the first accepting signature of the most-to-least-specific
\* ordering: it returns normally, and with the handler of an accepting
\* signature that no other accepting signature has an edge into.
C1_DispatchFirstMatch ==
  (/\ lastOp.op = "dispatch"
   /\ \A s \in DOMAIN funcs : ~HasVariadic(s))
  => LET M == {s \in DOMAIN funcs : FixedAccepts(lastOp.arg, s)}
         W == {s \in M : \A s2 \in M : ~edge(s2, s)}
     IN M # {} => /\ lastOp.raised = "none"
                  /\ lastOp.value \in {funcs[s] : s \in W}

\* C2: after a successful add, dispatch on the exact types of every signature
\* that call registered returns the handler just given, and dispatch on the
\* exact types of every other registered signature returns the handler it
\* had before the call.
C2_ExactDispatchReturnsLatest ==
  (lastOp.op = "add" /\ lastOp.raised = "none")
  => \A s \in ArgTuples \cup DOMAIN lastOp.funcs0 :
       ~HasVariadic(s) =>
         IF s \in Registered(lastOp.arg, lastOp.func)
         THEN dispatch(funcs, _ordering, s) = [raised |-> "none", value |-> lastOp.func]
         ELSE s \in DOMAIN lastOp.funcs0 =>
                dispatch(funcs, _ordering, s) = [raised |-> "none", value |-> lastOp.funcs0[s]]

\* C2 witness: a successful add has replaced the handler of a signature
\* that was already registered
C2_Witness ==
  /\ lastOp.op = "add"
  /\ lastOp.raised = "none"
  /\ \E s \in DOMAIN lastOp.funcs0 :
       ~HasVariadic(s) /\ s \in Registered(lastOp.arg, lastOp.func)
                       /\ lastOp.funcs0[s] # lastOp.func

C4_NoMatchReturnsNone ==
  (/\ lastOp.op = "dispatch"
   /\ \A s \in DOMAIN funcs : ~Accepts(lastOp.arg, s))
  => lastOp.raised = "none" /\ lastOp.value = None

\* C5: after a call that missed the cache, the cache holds the outcome of
\* the resolution under the exact argument types: the handler, or None when
\* no signature accepts them.
C5_MissStoresOutcome ==
  (lastOp.op = "call" /\ ~lastOp.hit)
  => /\ lastOp.arg \in DOMAIN _cache
     /\ _cache[lastOp.arg] = lastOp.value

\* C6: adding the signature [int] (a list holding int in last position)
\* succeeds and stores a variadic signature; a registry holding only that
\* signature dispatches (), (int,), (int, int) to its handler and every
\* tuple holding a type that is not a subclass of int to None.
C6_VariadicRegistersAndMatches ==
  /\ (lastOp.op = "add" /\ lastOp.arg = <<PyList(<<T("int")>>)>>)
       => /\ lastOp.raised = "none"
          /\ <<Variadic(<<T("int")>>)>> \in DOMAIN funcs
  /\ (lastOp.op = "dispatch" /\ DOMAIN funcs = {<<Variadic(<<T("int")>>)>>})
       => /\ lastOp.raised = "none"
          /\ lastOp.value =
               IF \A i \in 1..Len(lastOp.arg) : issubclass(lastOp.arg[i], T("int"))
               THEN funcs[<<Variadic(<<T("int")>>)>>] ELSE None

\* ls holds every member of S exactly once and respects every edge
ValidLinearization(ls, S) ==
  /\ Len(ls) = Cardinality(S)
  /\ {ls[i] : i \in 1..Len(ls)} = S
  /\ \A i, j \in 1..Len(ls) : edge(ls[i], ls[j]) => i < j

\* C7: when a dispatch has to compute the ordering, conflict.ordering over
\* the registered signatures either returns a valid linearization of them
\* or raises the cycle error (ValueError).
C7_OrderingValidOrCycleError ==
  (lastOp.op = "dispatch" /\ lastOp.arg \notin DOMAIN funcs)
  => LET od == conflict_ordering(DOMAIN funcs)
     IN \/ od.raised = "none" /\ ValidLinearization(od.value, DOMAIN funcs)
        \/ od.raised = "ValueError"

\* C8: when the argument types equal a registered signature, what dispatch
\* returned through its fast path is what the general scan returns.
C8_FastPathEqualsScan ==
  (lastOp.op = "dispatch" /\ lastOp.arg \in DOMAIN funcs)
  => general_scan(funcs, _ordering, lastOp.arg)
       = [raised |-> lastOp.raised, value |-> lastOp.value]

\* C9: when supercedes(a, b) holds, every argument-type tuple that a accepts
\* under the match rule of the resolver is accepted by b as well.
C9_SupercedesImpliesAccepts ==
  (cmp.done /\ cmp.result)
  => \A t \in ArgTuples : Accepts(t, cmp.a) => Accepts(t, cmp.b)

\* C10: an add that raised leaves funcs and the cache as they were.
C10_FailedAddChangesNothing ==
  (lastOp.op = "add" /\ lastOp.raised # "none")
  => funcs = lastOp.funcs0 /\ _cache = lastOp.cache0

====
